---- MODULE Spec2Model ----
(***************************************************************************)
(* Impression budget calculator (src/streamlit_app.py).                    *)
(*                                                                         *)
(* The program is a Streamlit script: every run executes the file from top *)
(* to bottom against the current widget values.  A run is modelled as the  *)
(* steps LoadStep (lines 45-49), InputsStep (54-72), CountryStep (74-99),  *)
(* ResolveStep (101-123) and ProjectStep (125-147); Rerun starts the next  *)
(* run, SourceChange rewrites data/campaigns.csv, ProcessRestart drops the *)
(* in-memory cache of st.cache_data.  Spec is the app in its environment;   *)
(* SpecLoad is load_data alone and SpecRun one run on a cold cache, each   *)
(* on generated files.                                                     *)
(*                                                                         *)
(* Text (headers, cells) is a sequence of one-character strings, so that   *)
(* strip, lower, replace and the numeric parse are computed character by   *)
(* character.  An empty cell is the empty sequence (pandas reads it as a   *)
(* missing value).  Numbers are exact rationals <<n, d>> in lowest terms   *)
(* (d > 0); <<0, 0>> is NaN.  The binary64 rounding of the Python floats   *)
(* and the IEEE literals (inf) are not modelled.                           *)
(***************************************************************************)
EXTENDS Integers, Sequences, FiniteSets, TLC

(***************************************************************************)
(* Text helpers                                                            *)
(***************************************************************************)
UpperCase == <<"A","B","C","D","E","F","G","H","I","J","K","L","M",
               "N","O","P","Q","R","S","T","U","V","W","X","Y","Z">>
LowerCase == <<"a","b","c","d","e","f","g","h","i","j","k","l","m",
               "n","o","p","q","r","s","t","u","v","w","x","y","z">>
Whitespace == {" ", "\t"}
DigitChars == <<"0","1","2","3","4","5","6","7","8","9">>

\* str.lower() on one character
lower_char(c) ==
    IF \E i \in DOMAIN UpperCase : UpperCase[i] = c
    THEN LowerCase[CHOOSE i \in DOMAIN UpperCase : UpperCase[i] = c]
    ELSE c

\* str.lower()
lower(s) == [i \in 1..Len(s) |-> lower_char(s[i])]

RECURSIVE lstrip(_)
lstrip(s) == IF s # <<>> /\ Head(s) \in Whitespace THEN lstrip(Tail(s)) ELSE s

RECURSIVE rstrip(_)
rstrip(s) ==
    IF s # <<>> /\ s[Len(s)] \in Whitespace
    THEN rstrip(SubSeq(s, 1, Len(s) - 1))
    ELSE s

\* str.strip()
strip(s) == rstrip(lstrip(s))

\* str.replace(ch, ""): every occurrence of the character is removed
RECURSIVE remove_char(_, _)
remove_char(s, ch) ==
    IF s = <<>> THEN <<>>
    ELSE IF Head(s) = ch THEN remove_char(Tail(s), ch)
    ELSE <<Head(s)>> \o remove_char(Tail(s), ch)

\* astype(str): a missing value becomes the text "nan"
astype_str(cell) == IF cell = <<>> THEN <<"n","a","n">> ELSE cell

\* number of occurrences of x in the sequence s
Count(s, x) == Cardinality({i \in DOMAIN s : s[i] = x})

\* the index of the first occurrence of x in s
IndexOf(s, x) == CHOOSE i \in DOMAIN s : s[i] = x /\ \A j \in 1..(i - 1) : s[j] # x

(***************************************************************************)
(* Numbers                                                                 *)
(***************************************************************************)
NaN == <<0, 0>>
isnan(x) == x[2] = 0

Abs(n) == IF n < 0 THEN 0 - n ELSE n

RECURSIVE GCD(_, _)
GCD(a, b) == IF b = 0 THEN a ELSE GCD(b, a % b)

\* the rational n / d (d # 0) in lowest terms with a positive denominator
Frac(n, d) ==
    LET g == GCD(Abs(n), Abs(d))
        sgn == IF d < 0 THEN 0 - 1 ELSE 1
    IN <<(sgn * n) \div g, Abs(d) \div g>>

Num(k) == <<k, 1>>

RAdd(x, y) ==
    IF isnan(x) \/ isnan(y) THEN NaN
    ELSE LET g == GCD(x[2], y[2])
         IN Frac(x[1] * (y[2] \div g) + y[1] * (x[2] \div g), (x[2] \div g) * y[2])

\* cross-reduced product, to keep the intermediate products small
RMul(x, y) ==
    IF isnan(x) \/ isnan(y) THEN NaN
    ELSE LET g1 == GCD(Abs(x[1]), y[2])
             g2 == GCD(Abs(y[1]), x[2])
             a == IF g1 = 0 THEN 0 ELSE x[1] \div g1
             d == IF g1 = 0 THEN 1 ELSE y[2] \div g1
             c == IF g2 = 0 THEN 0 ELSE y[1] \div g2
             b == IF g2 = 0 THEN 1 ELSE x[2] \div g2
         IN Frac(a * c, b * d)

\* x / y; a zero divisor gives NaN here and is guarded by every caller
RDiv(x, y) ==
    IF isnan(x) \/ isnan(y) \/ y[1] = 0 THEN NaN
    ELSE RMul(x, Frac(y[2], y[1]))

\* x > 0 (False for NaN, as in pandas and numpy)
RPos(x) == ~isnan(x) /\ x[1] > 0

\* x <= y for two numbers, by continued fractions: no product is formed
RECURSIVE RLeq(_, _)
RLeq(x, y) ==
    LET qx == x[1] \div x[2]
        qy == y[1] \div y[2]
        rx == x[1] % x[2]
        ry == y[1] % y[2]
    IN IF qx # qy THEN qx < qy
       ELSE IF rx = 0 THEN TRUE
       ELSE IF ry = 0 THEN FALSE
       ELSE RLeq(<<y[2], ry>>, <<x[2], rx>>)

RECURSIVE Pow10(_)
Pow10(k) == IF k = 0 THEN 1 ELSE 10 * Pow10(k - 1)

digit_value(c) == (CHOOSE i \in DOMAIN DigitChars : DigitChars[i] = c) - 1

RECURSIVE nat_of(_)
nat_of(s) ==
    IF s = <<>> THEN 0
    ELSE 10 * nat_of(SubSeq(s, 1, Len(s) - 1)) + digit_value(s[Len(s)])

\* pd.to_numeric(..., errors="coerce") on one cell: [-]digits[.digits] is parsed,
\* a missing cell and any other text become NaN
to_numeric(cell) ==
    LET neg == cell # <<>> /\ Head(cell) = "-"
        body == IF neg THEN Tail(cell) ELSE cell
        dots == {i \in DOMAIN body : body[i] = "."}
        dot == IF dots = {} THEN Len(body) + 1 ELSE CHOOSE i \in dots : TRUE
        ip == SubSeq(body, 1, dot - 1)
        fp == SubSeq(body, dot + 1, Len(body))
        digits == ip \o fp
        wellformed ==
            /\ Cardinality(dots) <= 1
            /\ digits # <<>>
            /\ \A i \in DOMAIN digits : \E k \in DOMAIN DigitChars : DigitChars[k] = digits[i]
    IN IF ~wellformed THEN NaN
       ELSE Frac((IF neg THEN 0 - 1 ELSE 1) * nat_of(digits), Pow10(Len(fp)))

(***************************************************************************)
(* Column names and labels of the source                                   *)
(***************************************************************************)
col_campaign_status == <<"c","a","m","p","a","i","g","n"," ","s","t","a","t","u","s">>
col_platform == <<"p","l","a","t","f","o","r","m">>
col_campaign_type == <<"c","a","m","p","a","i","g","n"," ","t","y","p","e">>
col_cost == <<"c","o","s","t">>
col_impressions == <<"i","m","p","r","e","s","s","i","o","n","s">>
col_impression == <<"i","m","p","r","e","s","s","i","o","n">>
col_country == <<"c","o","u","n","t","r","y">>
col_cpm_calc == <<"c","p","m","_","c","a","l","c">>
ALL_Overall == <<"A","L","L","/","O","v","e","r","a","l","l">>

\* line 32: req
req == <<col_campaign_status, col_platform, col_campaign_type, col_cost, col_impressions>>

\* line 80: all_labels
all_labels == {<<"a","l","l">>, <<"a","l","l","/","o","v","e","r","a","l","l">>, <<"o","v","e","r","a","l","l">>}

\* line 109
THRESHOLD_IMPR == 100000

\* lines 60-65: st.number_input("Target impressions", min_value, value)
TARGET_MIN == 1000
TARGET_DEFAULT == 5000000

\* line 133: st.number_input("Flight length (days)", min_value, value)
FLIGHT_MIN == 1
FLIGHT_DEFAULT == 14

(***************************************************************************)
(* load_data (lines 10-43)                                                 *)
(*                                                                         *)
(* A source file is [readable, header, rows]: the header is the sequence   *)
(* of raw column names, every row a sequence of raw cells aligned with it. *)
(* The result is [error, missing, columns, rows]; error = "" on success.   *)
(* The errors are raised in the order of the code: read_csv (line 12),     *)
(* the coercion of cost (27: with two columns named cost, df["cost"] is a  *)
(* DataFrame, which has no .str), the coercion of impressions (29: with    *)
(* two such columns pd.to_numeric rejects the DataFrame), and only then    *)
(* the required-columns check (33-35).                                     *)
(***************************************************************************)
\* line 15
normalize_header(c) == lower(strip(c))

\* lines 18-23: the rename of the impression variants
rename_column(c) ==
    IF remove_char(c, " ") \in {col_impressions, col_impression}
    THEN col_impressions
    ELSE c

\* lines 15-23: df.columns after the normalisation and the rename
normalized_columns(header) ==
    [i \in 1..Len(header) |-> rename_column(normalize_header(header[i]))]

\* line 33: the required columns that are absent, in the order of req
missing_columns(columns) ==
    SelectSeq(req, LAMBDA c : Count(columns, c) = 0)

\* line 27: the coercion of one cost cell
coerce_cost(cell) == to_numeric(remove_char(astype_str(cell), ","))

\* line 29: the coercion of one impressions cell
coerce_impressions(cell) == to_numeric(cell)

\* lines 26-29 on one row: the cost and impressions cells become numbers
coerce_row(columns, row) ==
    [i \in 1..Len(row) |->
        IF columns[i] = col_cost THEN coerce_cost(row[i])
        ELSE IF columns[i] = col_impressions THEN coerce_impressions(row[i])
        ELSE row[i]]

\* df[name] of one row (the column occurs once)
cell(columns, row, name) == row[IndexOf(columns, name)]

\* a filter that also asks for the campaign status Enabled
keep_row_enabled(columns, row) ==
    /\ RPos(cell(columns, row, col_impressions)) /\ RPos(cell(columns, row, col_cost))
    /\ lower(cell(columns, row, col_campaign_status)) = <<"e","n","a","b","l","e","d">>

\* a filter that keeps rows without impressions, impressions >= 0
keep_row_nonnegative(columns, row) ==
    /\ ~isnan(cell(columns, row, col_impressions))
    /\ cell(columns, row, col_impressions)[1] >= 0
    /\ RPos(cell(columns, row, col_cost))

\* line 38: the row filter
keep_row(columns, row) ==
    RPos(cell(columns, row, col_impressions)) /\ RPos(cell(columns, row, col_cost))

\* line 41: the per-row CPM
with_cpm_calc(columns, row) ==
    Append(row, RMul(RDiv(cell(columns, row, col_cost),
                          cell(columns, row, col_impressions)), Num(1000)))

LoadFailure(kind, missing) ==
    [error |-> kind, missing |-> missing, columns |-> <<>>, rows |-> <<>>]

load_data(f) ==
    IF ~f.readable THEN LoadFailure("FileNotFoundError", <<>>)
    ELSE
    LET columns == normalized_columns(f.header)
        missing == missing_columns(columns)
        coerced == [i \in 1..Len(f.rows) |-> coerce_row(columns, f.rows[i])]
        kept == SelectSeq(coerced, LAMBDA r : keep_row(columns, r))
    IN IF Count(columns, col_cost) > 1 THEN LoadFailure("AttributeError", <<>>)
       ELSE IF Count(columns, col_impressions) > 1 THEN LoadFailure("TypeError", <<>>)
       ELSE IF missing # <<>> THEN LoadFailure("ValueError", missing)
       ELSE [error |-> "", missing |-> <<>>,
             columns |-> Append(columns, col_cpm_calc),
             rows |-> [i \in 1..Len(kept) |-> with_cpm_calc(columns, kept[i])]]

(***************************************************************************)
(* The widgets and the data-frame operations of the script                 *)
(***************************************************************************)
\* the value before a script variable is assigned, and selectbox's None
None == <<>>

\* no Dataset: the empty cache entry, and df before load_data has returned
NoData == LoadFailure("unset", <<>>)

\* st.selectbox: one of the options; None when there is none
selectbox(opts) == IF opts = {} THEN {None} ELSE opts

\* a number input without min_value: every entry is taken
number_input_unchecked(entry, min_value, value) == entry

\* st.number_input with min_value: an entry below the minimum is not taken
\* and the widget keeps its value
number_input(entry, min_value, value) == IF entry >= min_value THEN entry ELSE value

\* Series == value, element-wise: a missing cell equals nothing, nothing equals None
eq(c, value) == c # None /\ c = value

\* Series.dropna().unique() of a column, as a set
unique_values(columns, rows, name) ==
    {cell(columns, rows[i], name) : i \in DOMAIN rows} \ {None}

\* line 54: platforms
platforms(d) == unique_values(d.columns, d.rows, col_platform)

\* line 57: ctype_opts
ctype_opts(d, p) ==
    unique_values(d.columns,
                  SelectSeq(d.rows, LAMBDA r : eq(cell(d.columns, r, col_platform), p)),
                  col_campaign_type)

\* line 68: base
select_base(d, p, t) ==
    SelectSeq(d.rows, LAMBDA r : /\ eq(cell(d.columns, r, col_platform), p)
                                 /\ eq(cell(d.columns, r, col_campaign_type), t))

\* line 77: base["country"] = base["country"].astype(str)
country_as_str(columns, rows) ==
    [i \in 1..Len(rows) |->
        [rows[i] EXCEPT ![IndexOf(columns, col_country)] = astype_str(@)]]

\* the labels compared without the strip
other_countries_unstripped(columns, rows) ==
    {c \in unique_values(columns, rows, col_country) : lower(c) \notin all_labels}

\* lines 79-83: other_countries
other_countries(columns, rows) ==
    {c \in unique_values(columns, rows, col_country) : lower(strip(c)) \notin all_labels}

\* line 86: options (the sort fixes the order shown, not the choice offered)
country_options(columns, rows) == {ALL_Overall} \cup other_countries(columns, rows)

\* lines 92-95: seg
select_seg(columns, rows, has_country, c) ==
    IF has_country /\ c # ALL_Overall
    THEN SelectSeq(rows, LAMBDA r : eq(cell(columns, r, col_country), c))
    ELSE rows

\* Series.sum() of a numeric column
RECURSIVE column_sum(_, _, _)
column_sum(columns, rows, name) ==
    IF rows = <<>> THEN Num(0)
    ELSE RAdd(cell(columns, Head(rows), name), column_sum(columns, Tail(rows), name))

\* a smoothed denominator, impr + 1
weighted_cpm_smoothed(cost, impr) ==
    IF RPos(impr) THEN RMul(RDiv(cost, RAdd(impr, Num(1))), Num(1000)) ELSE NaN

\* lines 104 and 115: (cost / impr) * 1000 if impr > 0 else np.nan
weighted_cpm(cost, impr) ==
    IF RPos(impr) THEN RMul(RDiv(cost, impr), Num(1000)) ELSE NaN

\* the mean of the per-row CPMs (cpm_calc) in place of the quotient of the sums
mean_row_cpm(columns, rows) ==
    IF rows = <<>> THEN NaN
    ELSE RDiv(column_sum(columns, rows, col_cpm_calc), Num(Len(rows)))

\* lines 102-104: overall_cpm, the quotient of the two sums of the rows
aggregate_cpm(columns, rows) ==
    weighted_cpm(column_sum(columns, rows, col_cost),
                 column_sum(columns, rows, col_impressions))

\* a strict comparison with the threshold
enough_impressions_strict(impr) ==
    ~isnan(impr) /\ RLeq(Num(THRESHOLD_IMPR), impr) /\ impr # Num(THRESHOLD_IMPR)

\* line 114: impr_sum >= THRESHOLD_IMPR
enough_impressions(impr) == ~isnan(impr) /\ RLeq(Num(THRESHOLD_IMPR), impr)

\* lines 110-123: cpm_eff and used_overall
resolve_cpm(country_chosen, cost, impr, overall) ==
    IF country_chosen
    THEN IF enough_impressions(impr)
         THEN [cpm_eff |-> weighted_cpm(cost, impr), used_overall |-> FALSE]
         ELSE [cpm_eff |-> overall, used_overall |-> TRUE]
    ELSE [cpm_eff |-> overall, used_overall |-> FALSE]

\* line 129: estimated_budget
budget(target, cpm) == RMul(RDiv(Num(target), Num(1000)), cpm)

\* an integer division, estimated // days
budget_per_day_floor(estimated, days) ==
    IF isnan(estimated) THEN NaN ELSE Num(estimated[1] \div (estimated[2] * days))

\* line 134: the daily budget
budget_per_day(estimated, days) == RDiv(estimated, Num(days))

\* line 135: the daily impressions
impressions_per_day(target, days) == RDiv(Num(target), Num(days))

(***************************************************************************)
(* The source files of the model: the contents data/campaigns.csv takes    *)
(***************************************************************************)
\* The two rows of the spec's scenarios 1-3 (Google x Search: NL 1,000 / 500000,
\* BE 200 / 50000), rows that the filter drops (no impressions, no cost, a negative
\* cost, impressions with a thousands separator, an unparsable and a missing cost), a
\* platform whose only row has no campaign type, and a row without a country.
FileScenario ==
    [readable |-> TRUE,
     header |-> <<<<"C","a","m","p","a","i","g","n"," ","S","t","a","t","u","s">>, <<"P","l","a","t","f","o","r","m">>, <<"C","a","m","p","a","i","g","n"," ","T","y","p","e">>, <<"C","o","s","t">>, <<"I","m","p","r","e","s","s","i","o","n","s">>, <<"C","o","u","n","t","r","y">>>>,
     rows |-> <<
        <<<<"E","n","a","b","l","e","d">>, <<"G","o","o","g","l","e">>, <<"S","e","a","r","c","h">>, <<"1",",","0","0","0">>, <<"5","0","0","0","0","0">>, <<"N","L">>>>,
        <<<<"P","a","u","s","e","d">>, <<"G","o","o","g","l","e">>, <<"S","e","a","r","c","h">>, <<"2","0","0">>, <<"5","0","0","0","0">>, <<"B","E">>>>,
        <<<<"E","n","a","b","l","e","d">>, <<"G","o","o","g","l","e">>, <<"S","e","a","r","c","h">>, <<"7","0">>, <<"0">>, <<"N","L">>>>,
        <<<<"E","n","a","b","l","e","d">>, <<"G","o","o","g","l","e">>, <<"S","e","a","r","c","h">>, <<"0">>, <<"4","0","0">>, <<"B","E">>>>,
        <<<<"E","n","a","b","l","e","d">>, <<"G","o","o","g","l","e">>, <<"S","e","a","r","c","h">>, <<"-","5">>, <<"3","0","0">>, <<"B","E">>>>,
        <<<<"E","n","a","b","l","e","d">>, <<"G","o","o","g","l","e">>, <<"S","e","a","r","c","h">>, <<"1","2">>, <<"1",",","0","0","0">>, <<"N","L">>>>,
        <<<<"E","n","a","b","l","e","d">>, <<"G","o","o","g","l","e">>, <<"S","e","a","r","c","h">>, <<"n","/","a">>, <<"3","0","0">>, <<"N","L">>>>,
        <<<<"E","n","a","b","l","e","d">>, <<"G","o","o","g","l","e">>, <<"S","e","a","r","c","h">>, <<>>, <<"3","0","0">>, <<"N","L">>>>,
        <<<<"R","e","m","o","v","e","d">>, <<"M","e","t","a">>, <<>>, <<"5">>, <<"1","0","0">>, <<"N","L">>>>,
        <<<<"E","n","a","b","l","e","d">>, <<"G","o","o","g","l","e">>, <<"D","i","s","p","l","a","y">>, <<"2",".","5">>, <<"1","0","0","0","0">>, <<>>>>>>]

\* Headers in their variants. Google x Search: NL has 99999 + 1 = 100000 impressions,
\* BE has 99999, and two rows are labelled as all markets; Meta x Display has only
\* rows labelled as all markets.
FileThreshold ==
    [readable |-> TRUE,
     header |-> <<<<" ","c","a","m","p","a","i","g","n"," ","s","t","a","t","u","s">>, <<"P","L","A","T","F","O","R","M"," ">>, <<"C","a","m","p","a","i","g","n"," ","t","y","p","e">>, <<" ","c","o","s","t"," ">>, <<" ","I","m","p","r","e","s","s","i","o","n"," ">>, <<"c","o","u","n","t","r","y">>>>,
     rows |-> <<
        <<<<"E","n","a","b","l","e","d">>, <<"G","o","o","g","l","e">>, <<"S","e","a","r","c","h">>, <<"9","9",".","9","9","9">>, <<"9","9","9","9","9">>, <<"N","L">>>>,
        <<<<"P","a","u","s","e","d">>, <<"G","o","o","g","l","e">>, <<"S","e","a","r","c","h">>, <<"1","0">>, <<"1">>, <<"N","L">>>>,
        <<<<"E","n","a","b","l","e","d">>, <<"G","o","o","g","l","e">>, <<"S","e","a","r","c","h">>, <<"1","9","9",".","9","9","8">>, <<"9","9","9","9","9">>, <<"B","E">>>>,
        <<<<"E","n","a","b","l","e","d">>, <<"G","o","o","g","l","e">>, <<"S","e","a","r","c","h">>, <<"3","0">>, <<"1">>, <<"A","l","l">>>>,
        <<<<"P","a","u","s","e","d">>, <<"G","o","o","g","l","e">>, <<"S","e","a","r","c","h">>, <<"2","0">>, <<"1","0","0","0","0","0">>, <<" ","o","v","e","r","a","l","l"," ">>>>,
        <<<<"E","n","a","b","l","e","d">>, <<"M","e","t","a">>, <<"D","i","s","p","l","a","y">>, <<"9">>, <<"3","0","0","0","0","0">>, <<"A","L","L","/","O","v","e","r","a","l","l">>>>>>]

\* No country column; the impressions header has an inner space.
FileNoCountry ==
    [readable |-> TRUE,
     header |-> <<<<"C","a","m","p","a","i","g","n"," ","S","t","a","t","u","s">>, <<"P","l","a","t","f","o","r","m">>, <<"C","a","m","p","a","i","g","n"," ","T","y","p","e">>, <<"C","o","s","t">>, <<"I","m","p","r"," ","e","s","s","i","o","n","s">>>>,
     rows |-> <<
        <<<<"E","n","a","b","l","e","d">>, <<"G","o","o","g","l","e">>, <<"S","e","a","r","c","h">>, <<"1",",","0","0","0">>, <<"5","0","0","0","0","0">>>>,
        <<<<"P","a","u","s","e","d">>, <<"G","o","o","g","l","e">>, <<"S","e","a","r","c","h">>, <<"2","0","0">>, <<"5","0","0","0","0">>>>,
        <<<<"P","a","u","s","e","d">>, <<"M","e","t","a">>, <<"D","i","s","p","l","a","y">>, <<"3">>, <<"1","5","0","0">>>>>>]

\* Every row is dropped by the filter: the Dataset is empty.
FileNoValidRow ==
    [readable |-> TRUE,
     header |-> <<<<"C","a","m","p","a","i","g","n"," ","S","t","a","t","u","s">>, <<"P","l","a","t","f","o","r","m">>, <<"C","a","m","p","a","i","g","n"," ","T","y","p","e">>, <<"C","o","s","t">>, <<"I","m","p","r","e","s","s","i","o","n","s">>, <<"C","o","u","n","t","r","y">>>>,
     rows |-> <<
        <<<<"E","n","a","b","l","e","d">>, <<"G","o","o","g","l","e">>, <<"S","e","a","r","c","h">>, <<"0">>, <<"4","0","0">>, <<"N","L">>>>,
        <<<<"E","n","a","b","l","e","d">>, <<"G","o","o","g","l","e">>, <<"S","e","a","r","c","h">>, <<"1","5">>, <<"0">>, <<"N","L">>>>,
        <<<<"E","n","a","b","l","e","d">>, <<"M","e","t","a">>, <<"D","i","s","p","l","a","y">>, <<"a","b","c">>, <<>>, <<"B","E">>>>>>]

\* platform and cost are absent.
FileMissingColumns ==
    [readable |-> TRUE,
     header |-> <<<<"C","a","m","p","a","i","g","n"," ","S","t","a","t","u","s">>, <<"C","a","m","p","a","i","g","n"," ","T","y","p","e">>, <<"I","m","p","r","e","s","s","i","o","n","s">>, <<"C","o","u","n","t","r","y">>>>,
     rows |-> <<
        <<<<"E","n","a","b","l","e","d">>, <<"S","e","a","r","c","h">>, <<"5","0","0","0","0","0">>, <<"N","L">>>>>>]

\* Two headers that both normalise to impressions; no required column is absent.
FileTwoImpressions ==
    [readable |-> TRUE,
     header |-> <<<<"C","a","m","p","a","i","g","n"," ","S","t","a","t","u","s">>, <<"P","l","a","t","f","o","r","m">>, <<"C","a","m","p","a","i","g","n"," ","T","y","p","e">>, <<"C","o","s","t">>, <<"I","m","p","r","e","s","s","i","o","n">>, <<"I","m","p","r","e","s","s","i","o","n","s">>>>,
     rows |-> <<
        <<<<"E","n","a","b","l","e","d">>, <<"G","o","o","g","l","e">>, <<"S","e","a","r","c","h">>, <<"2","0","0">>, <<"5","0","0","0","0">>, <<"5","0","0","0","0">>>>>>]

\* Two headers that both normalise to impressions, and platform is absent.
FileTwoImpressionsNoPlatform ==
    [readable |-> TRUE,
     header |-> <<<<"C","a","m","p","a","i","g","n"," ","S","t","a","t","u","s">>, <<"C","a","m","p","a","i","g","n"," ","T","y","p","e">>, <<"C","o","s","t">>, <<"I","m","p","r","e","s","s","i","o","n">>, <<"I","m","p","r","e","s","s","i","o","n","s">>>>,
     rows |-> <<
        <<<<"E","n","a","b","l","e","d">>, <<"S","e","a","r","c","h">>, <<"2","0","0">>, <<"5","0","0","0","0">>, <<"5","0","0","0","0">>>>>>]

\* Two headers that both normalise to cost.
FileTwoCosts ==
    [readable |-> TRUE,
     header |-> <<<<"C","a","m","p","a","i","g","n"," ","S","t","a","t","u","s">>, <<"P","l","a","t","f","o","r","m">>, <<"C","a","m","p","a","i","g","n"," ","T","y","p","e">>, <<"C","o","s","t">>, <<"c","o","s","t"," ">>, <<"I","m","p","r","e","s","s","i","o","n","s">>>>,
     rows |-> <<
        <<<<"E","n","a","b","l","e","d">>, <<"G","o","o","g","l","e">>, <<"S","e","a","r","c","h">>, <<"2","0","0">>, <<"2","0","0">>, <<"5","0","0","0","0">>>>>>]

\* Two headers that both normalise to platform: load_data succeeds, line 54 raises.
FileTwoPlatforms ==
    [readable |-> TRUE,
     header |-> <<<<"C","a","m","p","a","i","g","n"," ","S","t","a","t","u","s">>, <<"P","l","a","t","f","o","r","m">>, <<"p","l","a","t","f","o","r","m">>, <<"C","a","m","p","a","i","g","n"," ","T","y","p","e">>, <<"C","o","s","t">>, <<"I","m","p","r","e","s","s","i","o","n","s">>>>,
     rows |-> <<
        <<<<"E","n","a","b","l","e","d">>, <<"G","o","o","g","l","e">>, <<"G","o","o","g","l","e">>, <<"S","e","a","r","c","h">>, <<"2","0","0">>, <<"5","0","0","0","0">>>>>>]

\* Two headers that both normalise to country: lines 77-79 raise.
FileTwoCountries ==
    [readable |-> TRUE,
     header |-> <<<<"C","a","m","p","a","i","g","n"," ","S","t","a","t","u","s">>, <<"P","l","a","t","f","o","r","m">>, <<"C","a","m","p","a","i","g","n"," ","T","y","p","e">>, <<"C","o","s","t">>, <<"I","m","p","r","e","s","s","i","o","n","s">>, <<"C","o","u","n","t","r","y">>, <<"c","o","u","n","t","r","y">>>>,
     rows |-> <<
        <<<<"E","n","a","b","l","e","d">>, <<"G","o","o","g","l","e">>, <<"S","e","a","r","c","h">>, <<"2","0","0">>, <<"5","0","0","0","0">>, <<"N","L">>, <<"N","L">>>>>>]

\* The file cannot be read (missing, or not a CSV).
FileUnreadable == [readable |-> FALSE, header |-> <<>>, rows |-> <<>>]

Files ==
    {FileScenario, FileThreshold, FileNoCountry, FileNoValidRow, FileMissingColumns,
     FileTwoImpressions, FileTwoImpressionsNoPlatform, FileTwoCosts, FileTwoPlatforms,
     FileTwoCountries, FileUnreadable}

\* what the user types into the two number inputs
TargetEntries == {0, 999, 1000, 1500, 5000000}
FlightEntries == {0, 1, 3, 14}

(***************************************************************************)
(* State                                                                   *)
(***************************************************************************)
VARIABLES
    file,               \* the content of data/campaigns.csv (DATA_PATH)
    cache,              \* st.cache_data's entry for load_data(DATA_PATH), or NoData
    pc,                 \* the step the run is at: load, inputs, country, resolve,
                        \* project; done, stopped (st.stop) or crashed (uncaught)
    df,                 \* the Dataset of this run
    error,              \* the exception load_data raised in this run
    platform, ctype,    \* the two select boxes
    target_entry,       \* what the user typed as target impressions
    target_impr,        \* the value of the target impressions input
    base,               \* the rows of platform x campaign type
    options,            \* the options of the country select box
    country,
    seg,
    overall_cpm, cost_sum, impr_sum,
    cpm_eff, used_overall,
    estimated_budget,
    flight_entry,       \* what the user typed as flight length
    flight_days,        \* the value of the flight length input
    daily_budget, daily_impressions,
    shown               \* the messages and metrics the run has rendered

vars ==
    <<file, cache, pc, df, error, platform, ctype, target_entry, target_impr, base,
      options, country, seg, overall_cpm, cost_sum, impr_sum, cpm_eff, used_overall,
      estimated_budget, flight_entry, flight_days, daily_budget, daily_impressions,
      shown>>

\* the variables a run assigns after the inputs
selection_vars == <<platform, ctype, base>>
country_vars == <<options, country, seg>>
cpm_vars == <<overall_cpm, cost_sum, impr_sum, cpm_eff, used_overall>>
budget_vars == <<estimated_budget, daily_budget, daily_impressions>>
widget_vars == <<target_entry, target_impr, flight_entry, flight_days>>

\* the script's variables before a run has assigned them
FreshRun ==
    /\ df' = NoData /\ error' = NoData
    /\ platform' = None /\ ctype' = None /\ base' = <<>>
    /\ options' = {} /\ country' = None /\ seg' = <<>>
    /\ overall_cpm' = NaN /\ cost_sum' = NaN /\ impr_sum' = NaN
    /\ cpm_eff' = NaN /\ used_overall' = FALSE
    /\ estimated_budget' = NaN /\ daily_budget' = NaN /\ daily_impressions' = NaN
    /\ shown' = {}

\* a session that has not run yet, with an empty cache
FreshSession ==
    /\ cache = NoData
    /\ pc = "load"
    /\ df = NoData /\ error = NoData
    /\ platform = None /\ ctype = None /\ base = <<>>
    /\ options = {} /\ country = None /\ seg = <<>>
    /\ overall_cpm = NaN /\ cost_sum = NaN /\ impr_sum = NaN
    /\ cpm_eff = NaN /\ used_overall = FALSE
    /\ estimated_budget = NaN /\ daily_budget = NaN /\ daily_impressions = NaN
    /\ target_entry = TARGET_DEFAULT /\ target_impr = TARGET_DEFAULT
    /\ flight_entry = FLIGHT_DEFAULT /\ flight_days = FLIGHT_DEFAULT
    /\ shown = {}

Init == file \in Files /\ FreshSession

(***************************************************************************)
(* The steps of a run                                                      *)
(***************************************************************************)
\* lines 10-11: st.cache_data keys the entry on the function and its argument, the
\* path; the content of the file is no part of the key.  An exception is not cached.
cached_load(entry, f) == IF entry # NoData THEN entry ELSE load_data(f)

\* lines 45-49
LoadStep ==
    /\ pc = "load"
    /\ LET result == cached_load(cache, file)
       IN IF result.error = ""
          THEN /\ df' = result
               /\ cache' = result
               /\ pc' = "inputs"
               /\ UNCHANGED <<error, shown>>
          ELSE /\ error' = result
               /\ shown' = shown \cup {"Error loading data"}
               /\ pc' = "stopped"
               /\ UNCHANGED <<df, cache>>
    /\ UNCHANGED <<file, selection_vars, country_vars, cpm_vars, budget_vars, widget_vars>>

\* lines 51-72
InputsStep ==
    /\ pc = "inputs"
    /\ IF Count(df.columns, col_platform) > 1 \/ Count(df.columns, col_campaign_type) > 1
       THEN /\ pc' = "crashed"
            /\ shown' = shown \cup {"AttributeError"}
            /\ UNCHANGED <<selection_vars, target_entry, target_impr>>
       ELSE \E p \in selectbox(platforms(df)) :
            \E t \in selectbox(ctype_opts(df, p)) :
            \E entry \in TargetEntries :
               LET b == select_base(df, p, t)
               IN /\ platform' = p
                  /\ ctype' = t
                  /\ target_entry' = entry
                  /\ target_impr' = number_input(entry, TARGET_MIN, target_impr)
                  /\ base' = b
                  /\ IF b = <<>>
                     THEN /\ shown' = shown \cup {"No data for the selected Platform x Campaign type."}
                          /\ pc' = "stopped"
                     ELSE /\ pc' = "country"
                          /\ UNCHANGED shown
    /\ UNCHANGED <<file, cache, df, error, country_vars, cpm_vars, budget_vars,
                   flight_entry, flight_days>>

\* lines 74-99
CountryStep ==
    /\ pc = "country"
    /\ LET has_country == Count(df.columns, col_country) > 0
       IN IF Count(df.columns, col_country) > 1
          THEN /\ pc' = "crashed"
               /\ shown' = shown \cup {"AttributeError"}
               /\ UNCHANGED <<base, country_vars>>
          ELSE LET b == IF has_country THEN country_as_str(df.columns, base) ELSE base
                   opts == IF has_country THEN country_options(df.columns, b) ELSE {}
               IN \E c \in (IF has_country THEN opts ELSE {ALL_Overall}) :
                     LET s == select_seg(df.columns, b, has_country, c)
                         caption == IF has_country THEN {} ELSE {"No country column found"}
                     IN /\ base' = b
                        /\ options' = opts
                        /\ country' = c
                        /\ seg' = s
                        /\ IF s = <<>>
                           THEN /\ shown' = shown \cup caption \cup
                                       {"No data for the selected Platform x Campaign type (and Country)."}
                                /\ pc' = "stopped"
                           ELSE /\ shown' = shown \cup caption
                                /\ pc' = "resolve"
    /\ UNCHANGED <<file, cache, df, error, platform, ctype, cpm_vars, budget_vars, widget_vars>>

\* lines 101-123
ResolveStep ==
    /\ pc = "resolve"
    /\ LET overall == aggregate_cpm(df.columns, base)
           cost == column_sum(df.columns, seg, col_cost)
           impr == column_sum(df.columns, seg, col_impressions)
           chosen == Count(df.columns, col_country) > 0 /\ country # ALL_Overall
           r == resolve_cpm(chosen, cost, impr, overall)
       IN /\ overall_cpm' = overall
          /\ cost_sum' = cost
          /\ impr_sum' = impr
          /\ cpm_eff' = r.cpm_eff
          /\ used_overall' = r.used_overall
    /\ pc' = "project"
    /\ UNCHANGED <<file, cache, df, error, selection_vars, country_vars, budget_vars,
                   widget_vars, shown>>

\* lines 125-149
ProjectStep ==
    /\ pc = "project"
    /\ IF isnan(cpm_eff)
       THEN /\ shown' = shown \cup {"Unable to compute CPM for this selection."}
            /\ UNCHANGED <<budget_vars, flight_entry, flight_days>>
       ELSE \E entry \in FlightEntries :
               LET days == number_input(entry, FLIGHT_MIN, flight_days)
                   estimated == budget(target_impr, cpm_eff)
                   chosen == Count(df.columns, col_country) > 0 /\ country # ALL_Overall
                   note == IF ~chosen THEN {}
                           ELSE IF used_overall THEN {"Note: CPM falls back to the overall value"}
                           ELSE {"Country used"}
               IN /\ flight_entry' = entry
                  /\ flight_days' = days
                  /\ estimated_budget' = estimated
                  /\ daily_budget' = budget_per_day(estimated, days)
                  /\ daily_impressions' = impressions_per_day(target_impr, days)
                  /\ shown' = shown \cup note \cup
                        {"Estimated budget (EUR)", "Daily budget (EUR)", "Daily impressions (est.)"}
    /\ pc' = "done"
    /\ UNCHANGED <<file, cache, df, error, selection_vars, country_vars, cpm_vars,
                   target_entry, target_impr>>

(***************************************************************************)
(* The environment of a run                                                *)
(***************************************************************************)
\* The user changes a widget, or asks for a rerun: the script runs again from the
\* top; the number inputs keep their values.
Rerun ==
    /\ pc \in {"done", "stopped", "crashed"}
    /\ pc' = "load"
    /\ FreshRun
    /\ target_entry' = target_impr
    /\ flight_entry' = flight_days
    /\ UNCHANGED <<file, cache, target_impr, flight_days>>

\* data/campaigns.csv is replaced by another content
SourceChange ==
    /\ \E f \in Files \ {file} : file' = f
    /\ UNCHANGED <<cache, pc, df, error, selection_vars, country_vars, cpm_vars,
                   budget_vars, widget_vars, shown>>

\* The server process starts again: the cache and the session are gone.
ProcessRestart ==
    /\ cache # NoData
    /\ cache' = NoData
    /\ pc' = "load"
    /\ FreshRun
    /\ target_entry' = TARGET_DEFAULT /\ target_impr' = TARGET_DEFAULT
    /\ flight_entry' = FLIGHT_DEFAULT /\ flight_days' = FLIGHT_DEFAULT
    /\ UNCHANGED file

Next ==
    \/ LoadStep
    \/ InputsStep
    \/ CountryStep
    \/ ResolveStep
    \/ ProjectStep
    \/ Rerun
    \/ SourceChange
    \/ ProcessRestart

Spec == Init /\ [][Next]_vars

(***************************************************************************)
(* load_data alone, on generated files                                     *)
(***************************************************************************)
\* the number of rows of a generated file
MaxRows == 2

BoundedSeq(S, n) == UNION {[1..k -> S] : k \in 0..n}

StatusTexts == {<<"E","n","a","b","l","e","d">>, <<"P","a","u","s","e","d">>}

\* cost cells: a number, a number with a thousands separator, zero, a negative number
CostTexts == {<<"7">>, <<"1",",","0","0","0">>, <<"0">>, <<"-","5">>}

\* impressions cells: a number, zero, a number with a thousands separator
ImprTexts == {<<"3","0","0">>, <<"0">>, <<"1",",","0","0","0">>}

LoadRows ==
    {<<s, <<"G","o","o","g","l","e">>, <<"S","e","a","r","c","h">>, c, i, <<"N","L">>>> :
        s \in StatusTexts, c \in CostTexts, i \in ImprTexts}

LoadFiles ==
    Files \cup
    {[readable |-> TRUE, header |-> FileScenario.header, rows |-> rs] :
        rs \in BoundedSeq(LoadRows, MaxRows)}

InitLoad == file \in LoadFiles /\ FreshSession

NextLoad == LoadStep

SpecLoad == InitLoad /\ [][NextLoad]_vars

(***************************************************************************)
(* One run of the script on a cold cache, on generated files               *)
(***************************************************************************)
\* the number of rows of a generated file
MaxRunRows == 3

\* rows the filter keeps: the impressions of a country sum up to just below, to
\* exactly, and to above the threshold
RunRows ==
    {<<<<"E","n","a","b","l","e","d">>, <<"G","o","o","g","l","e">>, <<"S","e","a","r","c","h">>, <<"3">>, <<"1">>, <<"N","L">>>>,
     <<<<"E","n","a","b","l","e","d">>, <<"G","o","o","g","l","e">>, <<"S","e","a","r","c","h">>, <<"4","0">>, <<"9","9","9","9","9">>, <<"N","L">>>>,
     <<<<"E","n","a","b","l","e","d">>, <<"G","o","o","g","l","e">>, <<"S","e","a","r","c","h">>, <<"2",".","5">>, <<"9","9","9","9","9">>, <<"B","E">>>>,
     <<<<"E","n","a","b","l","e","d">>, <<"G","o","o","g","l","e">>, <<"S","e","a","r","c","h">>, <<"9">>, <<"6","0","0","0","0">>, <<"A","l","l">>>>}

RunFiles ==
    Files \cup
    {[readable |-> TRUE, header |-> FileScenario.header, rows |-> rs] :
        rs \in BoundedSeq(RunRows, MaxRunRows)}

InitRun == file \in RunFiles /\ FreshSession

NextRun ==
    \/ LoadStep
    \/ InputsStep
    \/ CountryStep
    \/ ResolveStep
    \/ ProjectStep

SpecRun == InitRun /\ [][NextRun]_vars

(***************************************************************************)
(* Properties                                                              *)
(***************************************************************************)
\* the run has resolved the effective CPM
Resolved == pc \in {"project", "done"}

\* the Dataset has a country column and an individual country is selected
CountryChosen == Count(df.columns, col_country) = 1 /\ country \notin {None, ALL_Overall}

\* the rows of the Dataset of the selected platform and campaign type
\* (a missing cell matches no selection)
MatchingRows ==
    SelectSeq(df.rows, LAMBDA r : /\ platform # None /\ ctype # None
                                  /\ cell(df.columns, r, col_platform) = platform
                                  /\ cell(df.columns, r, col_campaign_type) = ctype)

\* those of the selected country
CountryRows ==
    SelectSeq(MatchingRows, LAMBDA r : astype_str(cell(df.columns, r, col_country)) = country)

TotalCost(rows) == column_sum(df.columns, rows, col_cost)
TotalImpressions(rows) == column_sum(df.columns, rows, col_impressions)

\* (sum of cost / sum of impressions) x 1000
QuotientOfSums(rows) == RMul(RDiv(TotalCost(rows), TotalImpressions(rows)), Num(1000))

FallbackNote == "Note: CPM falls back to the overall value"
CountryNote == "Country used"
BudgetMetrics == {"Estimated budget (EUR)", "Daily budget (EUR)", "Daily impressions (est.)"}

\* C1: with an individual country selected, the effective CPM is the quotient of the
\* sums over the country's rows of the base segment, marked as the country's, when
\* these rows have at least 100,000 impressions (inclusive); otherwise it is the
\* quotient of the sums over the whole base segment, marked as the fallback to overall,
\* and the fallback note is shown with the estimate.
C1_ThresholdResolution ==
    (Resolved /\ CountryChosen) =>
        LET ci == TotalImpressions(CountryRows)
        IN IF ci[1] >= THRESHOLD_IMPR * ci[2]
           THEN /\ cpm_eff = QuotientOfSums(CountryRows)
                /\ ~used_overall
                /\ pc = "done" => (CountryNote \in shown /\ FallbackNote \notin shown)
           ELSE /\ cpm_eff = QuotientOfSums(MatchingRows)
                /\ used_overall
                /\ pc = "done" => (FallbackNote \in shown /\ CountryNote \notin shown)

\* C1: a country whose rows sum up to exactly 100,000 impressions (99,999 + 1) has been
\* resolved from its own rows
C1_ExactlyAtThreshold ==
    /\ pc = "done" /\ CountryChosen
    /\ Len(CountryRows) = 2
    /\ TotalImpressions(CountryRows) = Num(THRESHOLD_IMPR)
    /\ ~used_overall
    /\ cpm_eff # overall_cpm

\* a country with 99,999 impressions has fallen back to the overall CPM
C1_JustBelowThreshold ==
    /\ pc = "done" /\ CountryChosen
    /\ TotalImpressions(CountryRows) = Num(THRESHOLD_IMPR - 1)
    /\ used_overall
    /\ cpm_eff = overall_cpm

\* the mean of the per-row CPMs of the rows
MeanOfRowCpms(rows) ==
    RDiv(column_sum(df.columns, rows, col_cpm_calc), Num(Len(rows)))

\* C2: without a country column, or with the all-markets option selected, the effective
\* CPM is (sum of cost / sum of impressions) x 1000 over all rows of the base segment,
\* it is not marked as a fallback and no country note is shown, and it is undefined
\* exactly when the impressions sum is zero.
C2_OverallPath ==
    (Resolved /\ ~CountryChosen) =>
        /\ cpm_eff = QuotientOfSums(MatchingRows)
        /\ overall_cpm = cpm_eff
        /\ ~used_overall
        /\ isnan(cpm_eff) <=> (TotalImpressions(MatchingRows) = Num(0))
        /\ FallbackNote \notin shown /\ CountryNote \notin shown

\* C2: the all-markets option is selected on the rows 1,000 / 500,000 and 200 / 50,000:
\* the effective CPM is 1200 / 550000 x 1000 = 24/11, and the mean of the per-row CPMs
\* (2 and 4) is 3
C2_WeightedNotMean ==
    /\ pc = "done" /\ country = ALL_Overall
    /\ Len(MatchingRows) = 2
    /\ cpm_eff = <<24, 11>>
    /\ MeanOfRowCpms(MatchingRows) = Num(3)

IsDigit(c) == \E k \in DOMAIN DigitChars : DigitChars[k] = c

\* the text denotes a number greater than zero: digits with at most one decimal point,
\* no sign, and a digit other than 0
PositiveNumberText(s) ==
    /\ \A i \in DOMAIN s : IsDigit(s[i]) \/ s[i] = "."
    /\ Count(s, ".") <= 1
    /\ \E i \in DOMAIN s : IsDigit(s[i]) /\ s[i] # "0"

\* the cell of a row of the source file under the header that stands for the column
RawCell(row, name) == row[IndexOf(normalized_columns(file.header), name)]

\* the cost of the row, thousands separators removed, and its impressions denote
\* numbers greater than zero
Qualifies(row) ==
    /\ PositiveNumberText(remove_char(RawCell(row, col_cost), ","))
    /\ PositiveNumberText(RawCell(row, col_impressions))

QualifyingRows == SelectSeq(file.rows, Qualifies)

RECURSIVE SumOf(_)
SumOf(numbers) == IF numbers = <<>> THEN Num(0) ELSE RAdd(Head(numbers), SumOf(Tail(numbers)))

\* C3: the Dataset that load_data returns holds, in the order of the file, exactly the
\* rows of the file whose cost (thousands separators removed) and whose impressions
\* denote numbers greater than zero, whatever their campaign status; every other row
\* (cost or impressions zero, negative, missing or no number) is absent, so the cost
\* and the impressions summed over the Dataset are those of the qualifying rows alone.
C3_RowFilter ==
    pc = "inputs" =>
        LET q == QualifyingRows
        IN /\ Len(df.rows) = Len(q)
           /\ \A i \in DOMAIN q : \A k \in DOMAIN file.header :
                 LET name == df.columns[k]
                 IN IF name = col_cost
                    THEN df.rows[i][k] = to_numeric(remove_char(q[i][k], ",")) /\ RPos(df.rows[i][k])
                    ELSE IF name = col_impressions
                    THEN df.rows[i][k] = to_numeric(q[i][k]) /\ RPos(df.rows[i][k])
                    ELSE df.rows[i][k] = q[i][k]
           /\ TotalCost(df.rows) =
                 SumOf([i \in DOMAIN q |-> to_numeric(remove_char(RawCell(q[i], col_cost), ","))])
           /\ TotalImpressions(df.rows) =
                 SumOf([i \in DOMAIN q |-> to_numeric(RawCell(q[i], col_impressions))])

\* C3: of the two rows of the file, the one without impressions (and a cost above zero)
\* is dropped and the paused one is retained
C3_PausedKeptZeroDropped ==
    /\ pc = "inputs"
    /\ Len(file.rows) = 2 /\ Len(df.rows) = 1
    /\ \E i, j \in DOMAIN file.rows :
          /\ RawCell(file.rows[i], col_impressions) = <<"0">>
          /\ PositiveNumberText(RawCell(file.rows[i], col_cost))
          /\ RawCell(file.rows[j], col_campaign_status) = <<"P","a","u","s","e","d">>
          /\ Qualifies(file.rows[j])
          /\ cell(df.columns, df.rows[1], col_campaign_status) = <<"P","a","u","s","e","d">>

\* a row whose impressions carry a thousands separator is dropped, although its cost
\* with a thousands separator is parsed
C3_ImpressionsWithSeparatorDropped ==
    /\ pc = "inputs"
    /\ Len(file.rows) = 1 /\ df.rows = <<>>
    /\ RawCell(file.rows[1], col_impressions) = <<"1",",","0","0","0">>
    /\ RawCell(file.rows[1], col_cost) = <<"1",",","0","0","0">>

RECURSIVE RowsAt(_, _)
\* the rows at the indices I, in their order
RowsAt(rows, I) ==
    IF I = {} THEN <<>>
    ELSE LET i == CHOOSE i \in I : \A j \in I : i <= j
         IN <<rows[i]>> \o RowsAt(rows, I \ {i})

\* x lies between a and b, whichever of the two is the smaller
Between(x, a, b) == (RLeq(a, x) /\ RLeq(x, b)) \/ (RLeq(b, x) /\ RLeq(x, a))

\* the rows of the base segment of another country than the selected one
RemainingRows == SelectSeq(base, LAMBDA r : cell(df.columns, r, col_country) # country)

AbsentColumns ==
    {req[k] : k \in {k \in DOMAIN req : Count(normalized_columns(file.header), req[k]) = 0}}

\* C7: the load of this run has failed with the error that names the missing columns
\* exactly when the file is readable and a required column is absent after the
\* normalisation of the headers; and after a failed load the run has stopped with the
\* error shown, no selection made and no CPM or budget computed.
C7_SchemaErrorIffColumnAbsent ==
    pc # "load" =>
        /\ (error.error = "ValueError") <=> (file.readable /\ AbsentColumns # {})
        /\ (error.error = "ValueError") =>
              {error.missing[k] : k \in DOMAIN error.missing} = AbsentColumns
        /\ error # NoData =>
              /\ pc = "stopped" /\ "Error loading data" \in shown
              /\ df = NoData /\ platform = None /\ ctype = None /\ country = None
              /\ isnan(cpm_eff) /\ isnan(estimated_budget)
              /\ BudgetMetrics \cap shown = {}

\* the headers of the file stand for distinct columns
DistinctColumns ==
    LET columns == normalized_columns(file.header)
    IN \A i, j \in DOMAIN columns : columns[i] = columns[j] => i = j

\* on files whose headers stand for distinct columns the load fails as C7 says
C7_WithDistinctColumns == DistinctColumns => C7_SchemaErrorIffColumnAbsent

C8_LoadReadsCurrentContent ==
    [][(pc = "load" /\ pc' # "load") =>
          LET r == load_data(file)
          IN IF r.error = ""
             THEN pc' = "inputs" /\ df' = r
             ELSE pc' = "stopped" /\ error' = r]_vars

\* C9: with a country column, the options are the all-markets option and individual
\* countries; no individual country reads all, all/overall or overall once trimmed and
\* lowercased, and each has a row in the base segment; the all-markets option selects
\* the whole base segment, an individual country its rows, never an empty segment.
C9_CountryOptions ==
    (pc \in {"resolve", "project", "done"} /\ Count(df.columns, col_country) = 1) =>
        /\ ALL_Overall \in options
        /\ country \in options
        /\ \A c \in options \ {ALL_Overall} :
              /\ lower(strip(c)) \notin all_labels
              /\ \E i \in DOMAIN MatchingRows :
                    astype_str(cell(df.columns, MatchingRows[i], col_country)) = c
        /\ country = ALL_Overall =>
              /\ seg = base
              /\ seg = country_as_str(df.columns, MatchingRows)
        /\ country # ALL_Overall =>
              /\ seg # <<>>
              /\ seg = country_as_str(df.columns, CountryRows)

\* C9: the base segment has rows labelled as all markets in other spellings than the
\* option's; two individual countries are offered, the all-markets option is selected
\* and the segment holds the labelled rows too
C9_AllMarketsKeepsLabelledRows ==
    /\ pc = "done" /\ country = ALL_Overall
    /\ Cardinality(options) = 3
    /\ Len(seg) = 5
    /\ \E i \in DOMAIN seg :
          /\ cell(df.columns, seg[i], col_country) # ALL_Overall
          /\ strip(cell(df.columns, seg[i], col_country)) # cell(df.columns, seg[i], col_country)
          /\ lower(strip(cell(df.columns, seg[i], col_country))) \in all_labels

EmptyBaseAdvisory == "No data for the selected Platform x Campaign type."
EmptySegmentAdvisory == "No data for the selected Platform x Campaign type (and Country)."
UndefinedCpmAdvisory == "Unable to compute CPM for this selection."

C10_EmptyDataset ==
    /\ pc = "stopped" /\ EmptyBaseAdvisory \in shown
    /\ df # NoData /\ df.rows = <<>> /\ platform = None

====
